---- MODULE Spec2Model ----
(***************************************************************************)
(* Model of src/src/remindme.rs: the !remindme command (remindme,          *)
(* interval), the background poll loop (watch_for_reminders,               *)
(* get_expired_reminders) and the direct-message sender (dm_with_message). *)
(*                                                                         *)
(* Time is counted in seconds.  Instants are seconds since the process     *)
(* started; the reminders table is a set of rows.  Durations and stored    *)
(* dates are 64-bit quantities in the program, wider than the integers of  *)
(* the model checker, so they are kept as sequences of base-1000 limbs,    *)
(* least significant first (the number 0 is the empty sequence).           *)
(***************************************************************************)
EXTENDS Naturals, Sequences, FiniteSets

\* ------------------------------------------------------------------ bounds
\* Number of !remindme invocations explored.
MaxSubmits == 2
\* Number of times the clock advances (by one poll interval each time).
MaxTicks == 3
\* Number of failures injected into the poll loop (storage or delivery).
MaxFaults == 1

\* ------------------------------------------------- wide natural arithmetic
RECURSIVE BigOfNat(_)
BigOfNat(n) == IF n = 0 THEN << >> ELSE <<n % 1000>> \o BigOfNat(n \div 1000)

RECURSIVE BigMulCarry(_, _, _)
BigMulCarry(a, k, c) ==
    IF a = << >> THEN BigOfNat(c)
    ELSE LET v == Head(a) * k + c
         IN  <<v % 1000>> \o BigMulCarry(Tail(a), k, v \div 1000)

\* a * k for a small positive factor k
BigMul(a, k) == BigMulCarry(a, k, 0)

RECURSIVE BigAddCarry(_, _, _)
BigAddCarry(a, b, c) ==
    IF a = << >> /\ b = << >> THEN BigOfNat(c)
    ELSE LET x == IF a = << >> THEN 0 ELSE Head(a)
             y == IF b = << >> THEN 0 ELSE Head(b)
             v == x + y + c
         IN  <<v % 1000>>
               \o BigAddCarry(IF a = << >> THEN a ELSE Tail(a),
                              IF b = << >> THEN b ELSE Tail(b),
                              v \div 1000)

BigAdd(a, b) == BigAddCarry(a, b, 0)

RECURSIVE BigLess(_, _)
BigLess(a, b) ==
    IF Len(a) # Len(b) THEN Len(a) < Len(b)
    ELSE IF a = << >> THEN FALSE
    ELSE IF a[Len(a)] # b[Len(b)] THEN a[Len(a)] < b[Len(b)]
    ELSE BigLess(SubSeq(a, 1, Len(a) - 1), SubSeq(b, 1, Len(b) - 1))

\* u32::MAX = 4 294 967 295, the largest count the command can carry
U32Max == <<295, 967, 294, 4>>
\* chrono: the largest Duration is i64::MAX milliseconds,
\* 9 223 372 036 854 775 whole seconds
DurationMaxSecs == <<775, 854, 36, 372, 223, 9>>
\* chrono: the last representable NaiveDateTime is 262143-12-31T23:59:59,
\* 8 210 298 412 799 s after 1970; the process is taken to start
\* 1 520 000 000 s after 1970, which leaves 8 208 778 412 799 s
MaxInstant == <<799, 412, 778, 208, 8>>

\* --------------------------------------------------------------- strings
\* A scale token is a sequence of one-character strings.
UpperCase == <<"A","B","C","D","E","F","G","H","I","J","K","L","M",
               "N","O","P","Q","R","S","T","U","V","W","X","Y","Z">>
LowerCase == <<"a","b","c","d","e","f","g","h","i","j","k","l","m",
               "n","o","p","q","r","s","t","u","v","w","x","y","z">>

ToLowerChar(c) ==
    IF \E i \in 1..26 : UpperCase[i] = c
    THEN LowerCase[CHOOSE i \in 1..26 : UpperCase[i] = c]
    ELSE c

\* variant: the token is compared as written
to_lowercase_id(s) == s

to_lowercase(s) == [i \in 1..Len(s) |-> ToLowerChar(s[i])]

\* The usage text; its backquotes are written as apostrophes here.
USAGE == "Usage: '!remindme x scale', where 'x' is a number, and scale is 'minutes', 'hours', 'days' or 'weeks'."


\* ------------------------------------------------------ interval (l.50-58)
W_minutes == <<"m","i","n","u","t","e","s">>
W_minute  == <<"m","i","n","u","t","e">>
W_hours   == <<"h","o","u","r","s">>
W_hour    == <<"h","o","u","r">>
W_days    == <<"d","a","y","s">>
W_day     == <<"d","a","y">>
W_weeks   == <<"w","e","e","k","s">>
W_week    == <<"w","e","e","k">>

\* chrono's Duration::seconds: a Duration of more than i64::MAX milliseconds
\* cannot be built, the constructor panics.
DurationSeconds(secs) ==
    IF BigLess(DurationMaxSecs, secs)
    THEN [kind |-> "Panic", secs |-> << >>, why |-> << >>]
    ELSE [kind |-> "Ok", secs |-> secs, why |-> << >>]

\* variant: the count is taken as seconds
DurationMinutes_seconds(num) == DurationSeconds(num)

DurationMinutes(num) == DurationSeconds(BigMul(num, 60))
DurationHours(num)   == DurationSeconds(BigMul(num, 3600))
DurationDays(num)    == DurationSeconds(BigMul(num, 86400))
DurationWeeks(num)   == DurationSeconds(BigMul(num, 604800))

InvalidScale == <<"Invalid duration scale.\n", USAGE>>

\* fn interval(num: i64, scale: &str) -> Result<Duration, String>
Interval(num, scale) ==
    LET s == to_lowercase(scale)
    IN  CASE s \in {W_minutes, W_minute} -> DurationMinutes(num)
          [] s \in {W_hours, W_hour}     -> DurationHours(num)
          [] s \in {W_days, W_day}       -> DurationDays(num)
          [] s \in {W_weeks, W_week}     -> DurationWeeks(num)
          [] OTHER -> [kind |-> "Err", secs |-> << >>, why |-> InvalidScale]

\* ------------------------------------------------------ remindme (l.16-46)
Digits == <<"0","1","2","3","4","5","6","7","8","9">>

\* format!("{}", user_id.0): the decimal digits of the identifier
RECURSIVE FormatU64(_)
FormatU64(n) ==
    IF n < 10 THEN <<Digits[n + 1]>>
    ELSE FormatU64(n \div 10) \o <<Digits[(n % 10) + 1]>>

\* variant: the sum is not checked against the last representable instant
CheckedAddSigned_unchecked(t, d) == [some |-> TRUE, val |-> BigAdd(t, d)]

\* NaiveDateTime::checked_add_signed: None past the last representable instant
CheckedAddSigned(t, d) ==
    LET sum == BigAdd(t, d)
    IN  IF BigLess(MaxInstant, sum)
        THEN [some |-> FALSE, val |-> << >>]
        ELSE [some |-> TRUE, val |-> sum]

\* date.format("%Y-%m-%d %H:%M:%S"): a text that renders the instant to the
\* second, written here as the digits of its limbs, most significant first
RECURSIVE FormatDate(_)
FormatDate(date) ==
    IF date = << >> THEN << >>
    ELSE LET n == date[Len(date)]
         IN  <<Digits[(n \div 100) + 1], Digits[((n \div 10) % 10) + 1],
               Digits[(n % 10) + 1]>>
               \o FormatDate(SubSeq(date, 1, Len(date) - 1))

Confirmation(date) == <<"Reminder set for ">> \o FormatDate(date) \o <<" UTC.">>

\* variant: the validation message is returned as an error
OnInvalidScale_err(why) == [ok |-> FALSE, err |-> "Generic", text |-> why]

\* return Ok(why) on a scale that does not parse (l.27)
OnInvalidScale(why) == [ok |-> TRUE, err |-> "none", text |-> why]

\* .ok_or(CommandError::Generic("Date overflow"))? (l.33)
OnOverflow == [ok |-> FALSE, err |-> "Generic", text |-> <<"Date overflow">>]

\* variant: the storage error is dropped and the command reports success
OnStorageError_ignored == [ok |-> TRUE, err |-> "none", text |-> << >>]

\* pool.get_conn()? and conn.execute(..)? (l.36, l.40)
OnStorageError == [ok |-> FALSE, err |-> "Storage", text |-> << >>]

\* The command, evaluated at instant t.  fail names the storage call that
\* fails, if one does: "get_conn", "execute" or "none".  The result names the
\* value returned, the storage calls made and the row given to the INSERT
\* (the table assigns its id).
Remindme(num, scale, message, user_id, t, fail) ==
    LET uid == FormatU64(user_id)
        iv  == Interval(num, scale)
        date == CheckedAddSigned(BigOfNat(t), iv.secs)
    IN  IF iv.kind = "Panic"
        THEN [result |-> [ok |-> FALSE, err |-> "Panic", text |-> << >>],
              calls |-> << >>, insert |-> {}]
        ELSE IF iv.kind = "Err"
        THEN [result |-> OnInvalidScale(iv.why), calls |-> << >>, insert |-> {}]
        ELSE IF ~date.some
        THEN [result |-> OnOverflow, calls |-> << >>, insert |-> {}]
        ELSE IF fail = "get_conn"
        THEN [result |-> OnStorageError, calls |-> <<"get_conn">>, insert |-> {}]
        ELSE IF fail = "execute"
        THEN [result |-> OnStorageError, calls |-> <<"get_conn", "execute">>,
              insert |-> {}]
        ELSE [result |-> [ok |-> TRUE, err |-> "none",
                          text |-> Confirmation(date.val)],
              calls |-> <<"get_conn", "execute">>,
              insert |-> {[user_id |-> uid, date |-> date.val,
                           message |-> message]}]


\* ----------------------------------------------- dm_with_message (l.108-130)
IsDigit(c) == \E i \in 1..10 : Digits[i] = c

RECURSIVE ParseDigits(_)
ParseDigits(s) ==
    IF s = << >> THEN 0
    ELSE ParseDigits(SubSeq(s, 1, Len(s) - 1)) * 10
           + (CHOOSE i \in 1..10 : Digits[i] = s[Len(s)]) - 1

AllDigits(s) == Len(s) > 0 /\ \A i \in 1..Len(s) : IsDigit(s[i])

\* UserId::from_str: a decimal identifier, or a mention <@id> / <@!id>
ParseUserId(s) ==
    LET inner == IF Len(s) > 3 /\ s[1] = "<" /\ s[2] = "@" /\ s[Len(s)] = ">"
                 THEN IF s[3] = "!" THEN SubSeq(s, 4, Len(s) - 1)
                                    ELSE SubSeq(s, 3, Len(s) - 1)
                 ELSE s
    IN  IF AllDigits(inner) THEN [ok |-> TRUE, id |-> ParseDigits(inner)]
        ELSE [ok |-> FALSE, id |-> 0]

Fallback == "Hello! You asked me to remind you of something at this time,\nbut you didn't specify what!"

\* variant: the empty message is formatted like any other
DmResponse_plain(message) ==
    <<"Hello! You asked me to remind you of the following: ", message>>

DmResponse(message) ==
    IF message = "" THEN <<Fallback>>
    ELSE <<"Hello! You asked me to remind you of the following: ", message>>

\* getOk: the user can be fetched; dmOk: the direct message is accepted.
DmWithMessage(user_id, message, getOk, dmOk) ==
    LET userid == ParseUserId(user_id)
    IN  IF ~userid.ok
        THEN [ok |-> FALSE, err |-> "Failed to get user id", to |-> 0, sent |-> << >>]
        ELSE IF ~getOk
        THEN [ok |-> FALSE, err |-> "Failed to get user", to |-> userid.id,
              sent |-> << >>]
        ELSE IF ~dmOk
        THEN [ok |-> FALSE, err |-> "Failed to DM user", to |-> userid.id,
              sent |-> << >>]
        ELSE [ok |-> TRUE, err |-> "none", to |-> userid.id,
              sent |-> DmResponse(message)]

\* ----------------------------------------- get_expired_reminders (l.83-105)
\* variant: WHERE date <= current_timestamp
Expired_inclusive(st, t) == {r \in st : ~BigLess(BigOfNat(t), r.date)}

\* variant: the SELECT leaves out the rows that fell due within the last
\* polling interval
Expired_late(st, t) == {r \in st : BigLess(BigAdd(r.date, BigOfNat(60)), BigOfNat(t))}

\* variant: the SELECT also takes the rows falling due within the next
\* polling interval
Expired_early(st, t) == {r \in st : BigLess(r.date, BigOfNat(t + 60))}

\* SELECT .. FROM reminders WHERE date < current_timestamp
Expired(st, t) == {r \in st : BigLess(r.date, BigOfNat(t))}

\* the Reminder struct built from a selected row (l.91-95)
ToReminder(r) == [id |-> r.id, user_id |-> r.user_id, message |-> r.message]

\* variant: the DELETE removes nothing
DeleteRow_keep(st, id) == st

\* variant: the DELETE has no WHERE clause
DeleteRow_all(st, id) == {}

\* variant: the row is blanked by an UPDATE instead of being deleted
DeleteRow_blank(st, id) ==
    {IF r.id = id THEN [r EXCEPT !.message = ""] ELSE r : r \in st}

\* DELETE FROM reminders WHERE id = $1
DeleteRow(st, id) == {r \in st : r.id # id}

\* The orders in which the SELECT may hand back the rows of S.
Orders(S) ==
    {f \in [1..Cardinality(S) -> S] :
        \A i, j \in 1..Cardinality(S) : f[i] = f[j] => i = j}

\* ------------------------------------------- watch_for_reminders (l.61-81)
PollInterval == 60

\* variant: the loop is left on a claim error
OnClaimError_exit == "exit"

\* Err(why) => { error!(..); continue; } (l.68-71): back to the sleep
OnClaimError == "sleep"

\* variant: a failed delivery is tried again
NextIndex_retry(i, n, delivered) == IF delivered THEN i + 1 ELSE i
\* variant: a failed delivery ends the loop over the rows
NextIndex_break(i, n, delivered) == IF delivered THEN i + 1 ELSE n + 1

\* the for loop over the claimed rows goes on after a failed delivery (l.75-79)
NextIndex(i, n, delivered) == i + 1

\* ------------------------------------------------------------------ state
Pollers == {1, 2}
Ids == 1..MaxSubmits
FailModes == {"none", "get_conn", "execute"}

Requests == {<<7, "">>, <<42, "call mom">>}

\* The commands explored next to the poll loop:
\* <<num, scale, user_id, message, fail>>.
Commands ==
    {<<BigOfNat(1), W_minutes, 42, "call mom", "none">>,
     <<BigOfNat(1), W_minutes, 7, "", "none">>,
     <<BigOfNat(1), W_minutes, 7, "", "get_conn">>,
     <<BigOfNat(1), W_minutes, 7, "", "execute">>,
     <<U32Max, <<"H","o","u","r","s">>, 7, "", "none">>,
     <<BigOfNat(1), <<"f","o","r","t","n","i","g","h","t">>, 42, "call mom", "none">>}

\* The counts and scale tokens explored for the command alone.
\* 2 280 216 225 hours is the longest whole number of hours that still fits
\* before the last representable instant.
Counts == {BigOfNat(0), BigOfNat(5), <<225, 216, 280, 2>>, <<226, 216, 280, 2>>, U32Max}
Tokens ==
    {W_minutes, W_minute, W_hours, W_hour, W_days, W_day, W_weeks, W_week,
     <<"M","i","n","u","t","e","s">>, <<"M","I","N","U","T","E">>,
     <<"H","o","u","r","s">>, <<"h","O","U","R">>,
     <<"D","A","Y","S">>, <<"d","a","Y">>,
     <<"W","E","E","K","S">>, <<"W","e","e","k">>,
     << >>, <<"m">>, <<"m","i","n">>, <<"m","i","n","u","t","e","s","s">>,
     <<"s","e","c","o","n","d","s">>, <<"M","O","N","T","H">>,
     <<"d","a","y","s"," ">>, <<"5">>,
     <<"f","o","r","t","n","i","g","h","t">>}

\* The commands explored for the command alone: every count with every unit,
\* every token, and every storage failure.
CommandInputs ==
    {<<n, t, 7, "", "none">> : n \in Counts, t \in {W_minutes, W_hours, W_days, W_weeks}}
    \cup {<<BigOfNat(5), t, 42, "call mom", "none">> : t \in Tokens}
    \cup {<<n, t, r[1], r[2], f>> :
            n \in {BigOfNat(5), U32Max},
            t \in {W_days, <<"f","o","r","t","n","i","g","h","t">>},
            r \in Requests, f \in FailModes}

VARIABLES
    now,        \* the clock, seconds since the process started
    store,      \* the reminders table: rows [id, user_id, date, message]
    nextId,     \* the next id the table assigns
    submits,    \* number of remindme calls made
    request,    \* the last remindme call: its arguments, its instant, its fault
    response,   \* what the last remindme call returned
    calls,      \* the storage calls the last remindme call made
    submitted,  \* every row ever inserted
    running,    \* the pollers that were started
    pc,         \* each poller's position in watch_for_reminders
    rows,       \* each poller's selected rows (Vec<Reminder>)
    idx,        \* each poller's position in the loop over rows
    wakeAt,     \* the instant each poller's sleep ends
    claimAt,    \* current_timestamp of each poller's last SELECT
    selStore,   \* the table as each poller's last SELECT saw it
    returned,   \* per id: how many get_expired_reminders calls returned it
    attempts,   \* the dm_with_message calls made, in order
    logged,     \* number of error! lines written, by kind
    arg,        \* the <<num, scale>> handed to interval on its own
    out,        \* what interval returned for it
    dmArg,      \* the <<user_id, message>> handed to dm_with_message on its own
    dmOut       \* what dm_with_message did with it

vars == <<now, store, nextId, submits, request, response, calls, submitted, running, pc,
          rows, idx, wakeAt, claimAt, selStore, returned, attempts, logged, arg, out,
          dmArg, dmOut>>

pollerVars == <<pc, rows, idx, wakeAt, claimAt, selStore, returned, attempts, logged>>
submitVars == <<store, nextId, submits, request, response, calls, submitted>>
parseVars == <<arg, out, dmArg, dmOut>>

NoResponse == [ok |-> TRUE, err |-> "none", text |-> << >>]

NoRequest == [num |-> << >>, scale |-> << >>, user_id |-> 0, message |-> "",
              at |-> 0, fail |-> "none"]
NoArg == <<BigOfNat(0), << >> >>
NoOut == [kind |-> "none", secs |-> << >>, why |-> << >>]

NoDmArg == <<<< >>, "">>
NoDmOut == [ok |-> FALSE, err |-> "not called", to |-> 0, sent |-> << >>]

InitAll(started, t0, a, d) ==
    /\ arg = a
    /\ out = NoOut
    /\ dmArg = d
    /\ dmOut = NoDmOut
    /\ now = t0
    /\ store = {}
    /\ nextId = 1
    /\ submits = 0
    /\ request = NoRequest
    /\ response = NoResponse
    /\ calls = << >>
    /\ submitted = {}
    /\ running = started
    /\ pc = [p \in Pollers |-> IF p \in started THEN "sleep" ELSE "off"]
    /\ rows = [p \in Pollers |-> << >>]
    /\ idx = [p \in Pollers |-> 1]
    /\ wakeAt = [p \in Pollers |-> IF p \in started THEN t0 + PollInterval ELSE 0]
    /\ claimAt = [p \in Pollers |-> 0]
    /\ selStore = [p \in Pollers |-> {}]
    /\ returned = [i \in Ids |-> 0]
    /\ attempts = << >>
    /\ logged = [claim |-> 0, dm |-> 0]

InitWith(started, t0, a) == InitAll(started, t0, a, NoDmArg)

\* One background thread runs watch_for_reminders.
Init == InitWith({1}, 0, NoArg)

CanFail == logged.claim + logged.dm < MaxFaults

\* Time passes; the clock is read once a minute.
Tick ==
    /\ now < MaxTicks * 60
    /\ now' = now + 60
    /\ UNCHANGED <<running, arg, out, dmArg, dmOut>>
    /\ UNCHANGED pollerVars
    /\ UNCHANGED submitVars

\* A !remindme command: remindme(num, scale, message, user_id, pool).
Submit(num, scale, message, user_id, fail) ==
    /\ submits < MaxSubmits
    /\ LET r == Remindme(num, scale, message, user_id, now, fail)
           new == {[id |-> nextId, user_id |-> x.user_id, date |-> x.date,
                    message |-> x.message] : x \in r.insert}
       IN  /\ request' = [num |-> num, scale |-> scale, user_id |-> user_id,
                          message |-> message, at |-> now, fail |-> fail]
           /\ response' = r.result
           /\ calls' = r.calls
           /\ store' = store \cup new
           /\ submitted' = submitted \cup new
           /\ nextId' = IF new = {} THEN nextId ELSE nextId + 1
    /\ submits' = submits + 1
    /\ UNCHANGED <<now, running, arg, out, dmArg, dmOut>>
    /\ UNCHANGED pollerVars

\* thread::sleep(60 s) returns.
Wake(p) ==
    /\ pc[p] = "sleep"
    /\ now >= wakeAt[p]
    /\ pc' = [pc EXCEPT ![p] = "select"]
    /\ UNCHANGED <<now, running, rows, idx, wakeAt, claimAt, selStore, returned,
                   attempts, logged>>
    /\ UNCHANGED submitVars
    /\ UNCHANGED parseVars

\* get_expired_reminders fails: the error is logged, the loop continues.
ClaimFails(p) ==
    /\ pc' = [pc EXCEPT ![p] = OnClaimError]
    /\ rows' = [rows EXCEPT ![p] = << >>]
    /\ idx' = [idx EXCEPT ![p] = 1]
    /\ claimAt' = [claimAt EXCEPT ![p] = 0]
    /\ selStore' = [selStore EXCEPT ![p] = {}]
    /\ wakeAt' = [wakeAt EXCEPT ![p] = now + PollInterval]
    /\ logged' = [logged EXCEPT !.claim = @ + 1]

\* Ok(rows) (l.104): the call hands the selected rows rs to the loop.
ClaimReturns(p, rs) ==
    /\ pc' = [pc EXCEPT ![p] = "deliver"]
    /\ rows' = [rows EXCEPT ![p] = rs]
    /\ idx' = [idx EXCEPT ![p] = 1]
    /\ selStore' = [selStore EXCEPT ![p] = {}]
    /\ returned' = [i \in Ids |->
                      IF \E k \in 1..Len(rs) : rs[k].id = i
                      THEN returned[i] + 1 ELSE returned[i]]
    /\ UNCHANGED <<wakeAt, logged>>

\* pool.get_conn() and the SELECT (l.84-96); with no row selected the loop of
\* DELETEs is empty and the call returns at once.
Select(p, ok, order) ==
    /\ pc[p] = "select"
    /\ IF ok
       THEN /\ order \in Orders(Expired(store, now))
            /\ claimAt' = [claimAt EXCEPT ![p] = now]
            /\ IF order = << >>
               THEN ClaimReturns(p, << >>)
               ELSE /\ rows' = [rows EXCEPT ![p] =
                                  [i \in 1..Len(order) |-> ToReminder(order[i])]]
                    /\ idx' = [idx EXCEPT ![p] = 1]
                    /\ selStore' = [selStore EXCEPT ![p] = store]
                    /\ pc' = [pc EXCEPT ![p] = "delete"]
                    /\ UNCHANGED <<wakeAt, logged, returned>>
       ELSE /\ CanFail
            /\ order = << >>
            /\ ClaimFails(p)
            /\ UNCHANGED returned
    /\ UNCHANGED <<now, running, attempts>>
    /\ UNCHANGED submitVars
    /\ UNCHANGED parseVars

\* One DELETE of the loop over the selected rows (l.100-102); after the last
\* one the call returns Ok(rows).
Delete(p, ok) ==
    /\ pc[p] = "delete"
    /\ idx[p] <= Len(rows[p])
    /\ IF ok
       THEN /\ store' = DeleteRow(store, rows[p][idx[p]].id)
            /\ IF idx[p] = Len(rows[p])
               THEN /\ ClaimReturns(p, rows[p])
                    /\ UNCHANGED claimAt
               ELSE /\ idx' = [idx EXCEPT ![p] = @ + 1]
                    /\ UNCHANGED <<pc, rows, wakeAt, claimAt, selStore, logged,
                                   returned>>
       ELSE /\ CanFail
            /\ ClaimFails(p)
            /\ UNCHANGED <<store, returned>>
    /\ UNCHANGED <<now, running, attempts>>
    /\ UNCHANGED <<nextId, submits, request, response, calls, submitted>>
    /\ UNCHANGED parseVars

\* One dm_with_message call of the loop over the claimed rows (l.75-79).
Deliver(p, getOk, dmOk) ==
    /\ pc[p] = "deliver"
    /\ idx[p] <= Len(rows[p])
    /\ LET row == rows[p][idx[p]]
           d == DmWithMessage(row.user_id, row.message, getOk, dmOk)
       IN  /\ ~d.ok => CanFail
           /\ attempts' = Append(attempts,
                  [id |-> row.id, user_id |-> row.user_id, message |-> row.message,
                   poller |-> p, claimAt |-> claimAt[p], at |-> now,
                   ok |-> d.ok, err |-> d.err, to |-> d.to, sent |-> d.sent])
           /\ logged' = IF d.ok THEN logged ELSE [logged EXCEPT !.dm = @ + 1]
           /\ idx' = [idx EXCEPT ![p] = NextIndex(@, Len(rows[p]), d.ok)]
    /\ UNCHANGED <<now, running, pc, rows, wakeAt, claimAt, selStore, returned>>
    /\ UNCHANGED submitVars
    /\ UNCHANGED parseVars

\* The loop over the rows is over: back to the top of the loop, and sleep.
TickDone(p) ==
    /\ pc[p] = "deliver"
    /\ idx[p] > Len(rows[p])
    /\ pc' = [pc EXCEPT ![p] = "sleep"]
    /\ rows' = [rows EXCEPT ![p] = << >>]
    /\ idx' = [idx EXCEPT ![p] = 1]
    /\ claimAt' = [claimAt EXCEPT ![p] = 0]
    /\ wakeAt' = [wakeAt EXCEPT ![p] = now + PollInterval]
    /\ UNCHANGED <<now, running, selStore, returned, attempts, logged>>
    /\ UNCHANGED submitVars
    /\ UNCHANGED parseVars

\* One step of poller p's loop.
Poll(p) ==
    \/ Wake(p)
    \/ \E ok \in BOOLEAN : \E order \in {<< >>} \cup Orders(Expired(store, now)) :
          Select(p, ok, order)
    \/ \E ok \in BOOLEAN : Delete(p, ok)
    \/ \E getOk, dmOk \in BOOLEAN : Deliver(p, getOk, dmOk)
    \/ TickDone(p)

Next ==
    \/ Tick
    \/ \E c \in Commands : Submit(c[1], c[2], c[4], c[3], c[5])
    \/ \E p \in running : Wake(p)
    \/ \E p \in running, ok \in BOOLEAN :
          \E order \in {<< >>} \cup Orders(Expired(store, now)) : Select(p, ok, order)
    \/ \E p \in running, ok \in BOOLEAN : Delete(p, ok)
    \/ \E p \in running, getOk, dmOk \in BOOLEAN : Deliver(p, getOk, dmOk)
    \/ \E p \in running : TickDone(p)

Spec == Init /\ [][Next]_vars

\* ------------------------------------------------- the command on its own
\* No poller runs; every count and scale token is tried, at several instants.
\* From 2 800 s on, 2 280 216 225 hours no longer fit.
StartTimes == {0, 60, 2820}

InitCommand == \E t0 \in StartTimes : InitWith({}, t0, NoArg)

NextCommand ==
    \E c \in CommandInputs : Submit(c[1], c[2], c[4], c[3], c[5])

SpecCommand == InitCommand /\ [][NextCommand]_vars

\* ------------------------------------------------ interval on its own
InitInterval == \E a \in Counts \X Tokens : InitWith({}, 0, a)

\* remindme's call interval(num as i64, &scale) (l.25)
CallInterval ==
    /\ out = NoOut
    /\ out' = Interval(arg[1], arg[2])
    /\ UNCHANGED <<now, running, arg, dmArg, dmOut>>
    /\ UNCHANGED pollerVars
    /\ UNCHANGED submitVars

NextInterval == CallInterval

SpecInterval == InitInterval /\ [][NextInterval]_vars


\* ------------------------------------------ dm_with_message on its own
\* The identifiers stored by remindme, mentions, and texts that are neither.
DmUserIds ==
    {<<"7">>, <<"4","2">>, <<"0">>, <<"<","@","4","2",">">>, <<"<","@","!","7",">">>,
     << >>, <<"a","b","c">>, <<"4","x","2">>, <<"<","@",">">>, <<"@","4","2">>,
     <<"4","2"," ">>, <<"<","@","4","2">>, <<"-","7">>}
DmMessages == {"", "buy milk", "call mom", " "}

InitDeliver == \E d \in DmUserIds \X DmMessages : InitAll({}, 0, NoArg, d)

\* the loop's call dm_with_message(row.user_id, row.message) (l.76)
CallDm(getOk, dmOk) ==
    /\ dmOut = NoDmOut
    /\ dmOut' = DmWithMessage(dmArg[1], dmArg[2], getOk, dmOk)
    /\ UNCHANGED <<now, running, arg, out, dmArg>>
    /\ UNCHANGED pollerVars
    /\ UNCHANGED submitVars

NextDeliver == \E getOk, dmOk \in BOOLEAN : CallDm(getOk, dmOk)

SpecDeliver == InitDeliver /\ [][NextDeliver]_vars

\* The loop scheduled fairly while time advances: a poller wakes as soon as its
\* sleep of 60 s is over and finishes its tick before the clock moves on.
PromptTick ==
    /\ \A p \in running : pc[p] = "sleep" /\ now < wakeAt[p]
    /\ Tick

NextLive ==
    \/ PromptTick
    \/ \E c \in Commands : Submit(c[1], c[2], c[4], c[3], c[5])
    \/ \E p \in running : Wake(p)
    \/ \E p \in running, ok \in BOOLEAN :
          \E order \in {<< >>} \cup Orders(Expired(store, now)) : Select(p, ok, order)
    \/ \E p \in running, ok \in BOOLEAN : Delete(p, ok)
    \/ \E p \in running, getOk, dmOk \in BOOLEAN : Deliver(p, getOk, dmOk)
    \/ \E p \in running : TickDone(p)

SpecLive == Init /\ [][NextLive]_vars /\ WF_vars(PromptTick) /\ WF_vars(Poll(1))

\* Two instances of watch_for_reminders polling the same table.
InitPollers == InitWith({1, 2}, 0, NoArg)

SpecPollers == InitPollers /\ [][Next]_vars

\* ================================================================ properties
StoreIds == {r.id : r \in store}
RowIds(rs) == {rs[k].id : k \in 1..Len(rs)}
AttemptsFor(i) == {k \in 1..Len(attempts) : attempts[k].id = i}

\* The scale tokens of Tokens that name each unit, listed by hand.
MeansMinutes == {W_minutes, W_minute, <<"M","i","n","u","t","e","s">>,
                 <<"M","I","N","U","T","E">>}
MeansHours == {W_hours, W_hour, <<"H","o","u","r","s">>, <<"h","O","U","R">>}
MeansDays == {W_days, W_day, <<"D","A","Y","S">>, <<"d","a","Y">>}
MeansWeeks == {W_weeks, W_week, <<"W","E","E","K","S">>, <<"W","e","e","k">>}

\* seconds in the unit a token names; 0 for a token that names none
UnitOf(scale) ==
    CASE scale \in MeansMinutes -> 60
      [] scale \in MeansHours -> 3600
      [] scale \in MeansDays -> 86400
      [] scale \in MeansWeeks -> 604800
      [] OTHER -> 0

Supported(scale) == UnitOf(scale) # 0

\* now + interval for a request with a supported scale
ExpectedDue(req) == BigAdd(BigOfNat(req.at), BigMul(req.num, UnitOf(req.scale)))
Overflows(req) == Supported(req.scale) /\ BigLess(MaxInstant, ExpectedDue(req))

\* a step in which remindme ran
SubmitStep == submits' = submits + 1

\* a step in which poller p's get_expired_reminders call returned Ok(rows)
ClaimReturnStep(p) == pc[p] \in {"select", "delete"} /\ pc'[p] = "deliver"
\* the table as that call's SELECT saw it
SeenBy(p) == IF pc[p] = "select" THEN store ELSE selStore[p]

\* C1: with one poll loop, a reminder that a claim returned is returned by
\* no other claim, and is not in the table once the claim has returned it.
C1_ReturnedOnceAndGone ==
    \A i \in Ids : returned[i] <= 1 /\ (returned[i] >= 1 => i \notin StoreIds)

\* a reminder was returned, a claim failed, and a later claim returned
\* without it
C1_Witness ==
    \E i \in Ids :
        /\ returned[i] = 1
        /\ logged.claim >= 1
        /\ pc[1] = "deliver"
        /\ i \notin RowIds(rows[1])

\* C2 as stated: a successful claim evaluated at instant now returns a stored
\* reminder due at T exactly when now >= T.
C2_DueAtOrBefore ==
    [][\A p \in running : ClaimReturnStep(p) =>
          \A r \in SeenBy(p) :
              (r.id \in RowIds(rows'[p])) <=> ~BigLess(BigOfNat(claimAt'[p]), r.date)]_vars

\* C2 as amended: a successful claim evaluated at instant now returns a stored
\* reminder due at T exactly when now > T; a claim at now <= T, and so one at
\* exactly now = T, does not return it and leaves it stored.
C2_DueStrictlyBefore ==
    [][\A p \in running : ClaimReturnStep(p) =>
          \A r \in SeenBy(p) :
              /\ (r.id \in RowIds(rows'[p])) <=> BigLess(r.date, BigOfNat(claimAt'[p]))
              /\ ~BigLess(r.date, BigOfNat(claimAt'[p])) => r \in store']_vars

\* a claim evaluated at exactly the due instant returned nothing and left the
\* reminder stored
C2_Witness ==
    /\ pc[1] = "deliver"
    /\ rows[1] = << >>
    /\ claimAt[1] > 0
    /\ \E r \in store : r.date = BigOfNat(claimAt[1])

\* C3: a reminder gets at most one delivery attempt, and one whose delivery
\* failed is not in the table afterwards; nothing is in the table but what a
\* command inserted.
C3_NoRetryAfterFailure ==
    /\ \A k \in 1..Len(attempts) :
          /\ Cardinality(AttemptsFor(attempts[k].id)) = 1
          /\ ~attempts[k].ok => attempts[k].id \notin StoreIds
    /\ store \subseteq submitted

\* a delivery failed, and the loop has since made another successful claim
C3_Witness ==
    \E k \in 1..Len(attempts) :
        /\ ~attempts[k].ok
        /\ pc[1] = "deliver"
        /\ claimAt[1] > attempts[k].claimAt

\* C4: for a scale token that names no unit, remindme returns Ok with the
\* validation message, which contains the usage text, makes no storage call
\* and leaves the table as it was.
C4_InvalidScaleIsAnOkReply ==
    [][SubmitStep /\ ~Supported(request'.scale) =>
          /\ response'.ok
          /\ response'.err = "none"
          /\ response'.text # << >>
          /\ \E i \in 1..Len(response'.text) : response'.text[i] = USAGE
          /\ calls' = << >>
          /\ store' = store]_vars

\* a command with an unsupported scale was answered while a reminder was stored
C4_Witness ==
    /\ ~Supported(request.scale)
    /\ submits = 2
    /\ store # {}
    /\ response.ok
    /\ response.text = InvalidScale
    /\ calls = << >>

\* C5: when now + interval is past the last representable instant, remindme
\* fails with the overflow error, which is not the validation reply, makes no
\* storage call and creates no row.
C5_OverflowFails ==
    [][SubmitStep /\ Overflows(request') =>
          /\ ~response'.ok
          /\ response'.err = "Generic"
          /\ response'.text = <<"Date overflow">>
          /\ calls' = << >>
          /\ store' = store
          /\ submitted' = submitted]_vars

\* 2 280 216 225 hours asked for at 2 820 s: 19 s too far
C5_Witness ==
    /\ request.num = <<225, 216, 280, 2>>
    /\ request.scale \in MeansHours
    /\ request.at = 2820
    /\ ~response.ok
    /\ response.err = "Generic"

\* C6: when obtaining the connection or the INSERT fails, remindme returns a
\* storage error, not the confirmation, and the table holds no new row.
C6_StorageErrorPropagates ==
    [][SubmitStep /\ request'.fail # "none" /\ Supported(request'.scale)
         /\ ~Overflows(request') =>
          /\ ~response'.ok
          /\ response'.err = "Storage"
          /\ response'.text # Confirmation(ExpectedDue(request'))
          /\ store' = store
          /\ submitted' = submitted]_vars

\* the INSERT failed while a reminder was stored
C6_Witness ==
    /\ request.fail = "execute"
    /\ Supported(request.scale)
    /\ calls = <<"get_conn", "execute">>
    /\ response.err = "Storage"
    /\ store # {}

\* C7: a successful remindme at instant T0 adds exactly one row, for the
\* user and message given and due at T0 + count units, and leaves the other
\* rows alone; a claim returns exactly the stored reminders due before its
\* instant, each with its user and message.
C7_SubmitThenClaim ==
    [][/\ SubmitStep /\ request'.fail = "none" /\ Supported(request'.scale)
            /\ ~Overflows(request') =>
          /\ response'.ok
          /\ \E r \in store' :
                /\ r \notin store
                /\ store' = store \cup {r}
                /\ ParseUserId(r.user_id) = [ok |-> TRUE, id |-> request'.user_id]
                /\ r.message = request'.message
                /\ r.date = ExpectedDue(request')
                /\ request'.at = now
       /\ \A p \in running : ClaimReturnStep(p) =>
             LET due == {r \in SeenBy(p) : BigLess(r.date, BigOfNat(claimAt'[p]))}
             IN  /\ Len(rows'[p]) = Cardinality(due)
                 /\ {rows'[p][k] : k \in 1..Len(rows'[p])}
                      = {[id |-> r.id, user_id |-> r.user_id, message |-> r.message] :
                            r \in due}]_vars

\* the reminder "call mom" of user 42 was the one reminder a claim returned,
\* and the table is empty
C7_Witness ==
    /\ pc[1] = "deliver"
    /\ Len(rows[1]) = 1
    /\ rows[1][1].user_id = <<"4", "2">>
    /\ rows[1][1].message = "call mom"
    /\ \E r \in submitted : r.id = rows[1][1].id /\ BigLess(r.date, BigOfNat(claimAt[1]))
    /\ store = {}

LoopPositions == {"sleep", "select", "delete", "deliver"}

\* C8: no failure inside a tick ends the poll loop: after a claim error the
\* loop is back at its sleep, due to end one poll interval later, and after
\* a delivery error it is still in its loop over the claimed rows.
C8_LoopSurvivesFailures ==
    [][\A p \in running :
          /\ pc'[p] \in LoopPositions
          /\ (logged'.claim > logged.claim /\ pc[p] \in {"select", "delete"}) =>
                (pc'[p] = "sleep" /\ wakeAt'[p] = now + PollInterval)
          /\ (logged'.dm > logged.dm /\ pc[p] = "deliver") => pc'[p] = "deliver"]_vars

\* after a claim error the loop slept and is at its next claim attempt
C8_Witness ==
    /\ logged.claim >= 1
    /\ pc[1] = "select"

\* the attempts of poller p's current tick for reminder i
TickAttempts(p, i) ==
    {k \in 1..Len(attempts) :
        /\ attempts[k].id = i
        /\ attempts[k].poller = p
        /\ attempts[k].claimAt = claimAt[p]}

\* C9: in the loop over the rows a claim returned, each row passed has had
\* exactly one delivery attempt in this tick, whatever the outcome of the
\* others, and no row is skipped: at the end of the loop every row has had one.
C9_OneAttemptEach ==
    \A p \in running : pc[p] = "deliver" =>
        /\ idx[p] \in 1..(Len(rows[p]) + 1)
        /\ \A k \in 1..Len(rows[p]) :
              Cardinality(TickAttempts(p, rows[p][k].id))
                 = IF k < idx[p] THEN 1 ELSE 0

\* two reminders were claimed in one tick, the first delivery failed and the
\* second was made
C9_Witness ==
    /\ pc[1] = "deliver"
    /\ Len(rows[1]) = 2
    /\ idx[1] = 3
    /\ \E k \in TickAttempts(1, rows[1][1].id) : ~attempts[k].ok
    /\ \E k \in TickAttempts(1, rows[1][2].id) : attempts[k].ok

\* C10: for every count and every token that names a unit, in any letter
\* case, singular or plural, interval returns the duration of count units;
\* for every input it returns a duration or an error and does not abort.
C10_IntervalExact ==
    out # NoOut =>
        /\ out.kind \in {"Ok", "Err"}
        /\ Supported(arg[2]) =>
              (out.kind = "Ok" /\ out.secs = BigMul(arg[1], UnitOf(arg[2])))
        /\ out.kind = "Err" => out.why # << >>

\* u32::MAX weeks, asked for in capitals: 2 597 596 220 016 000 s
C10_Witness ==
    /\ arg = <<U32Max, <<"W","E","E","K","S">> >>
    /\ out.kind = "Ok"
    /\ out.secs = <<0, 16, 220, 596, 597, 2>>


\* The identifiers of DmUserIds that name a user, listed by hand with the
\* user they name.
NamesUser ==
    {<< <<"7">>, 7 >>, << <<"4","2">>, 42 >>, << <<"0">>, 0 >>,
     << <<"<","@","4","2",">">>, 42 >>, << <<"<","@","!","7",">">>, 7 >>}
Parsable(uid) == \E nu \in NamesUser : nu[1] = uid

\* C11: dm_with_message sends the fixed fallback text for an empty message
\* and otherwise a text that holds the message as given, to the user the
\* identifier names; when the identifier does not parse or the user cannot be
\* fetched it returns an error and sends nothing.
C11_DeliverText ==
    dmOut # NoDmOut =>
        /\ dmOut.ok =>
              /\ Parsable(dmArg[1])
              /\ <<dmArg[1], dmOut.to>> \in NamesUser
              /\ dmOut.err = "none"
              /\ dmArg[2] = "" => dmOut.sent = <<Fallback>>
              /\ dmArg[2] # "" =>
                    /\ \E i \in 1..Len(dmOut.sent) : dmOut.sent[i] = dmArg[2]
                    /\ dmOut.sent # <<Fallback>>
        /\ ~Parsable(dmArg[1]) => (~dmOut.ok /\ dmOut.err = "Failed to get user id")
        /\ ~dmOut.ok => (dmOut.sent = << >> /\ dmOut.err # "none")

\* "buy milk" went to user 42, named by a mention
C11_Witness ==
    /\ dmArg = << <<"<","@","4","2",">">>, "buy milk" >>
    /\ dmOut.ok
    /\ dmOut.to = 42
    /\ dmOut.sent = <<"Hello! You asked me to remind you of the following: ", "buy milk">>


\* C12: no reminder is deleted without a delivery attempt: whenever the loop
\* is back at its sleep, every reminder that was inserted and is no longer in
\* the table has had a delivery attempt, also after a claim that failed
\* part-way.
C12_DeletedMeansAttempted ==
    (\A p \in running : pc[p] = "sleep") =>
        \A r \in submitted : r \notin store => AttemptsFor(r.id) # {}

\* a step in which poller p's get_expired_reminders call returned Err
ClaimErrorStep(p) ==
    /\ pc[p] \in {"select", "delete"}
    /\ pc'[p] = "sleep"
    /\ logged'.claim = logged.claim + 1

\* C13: when the claim of a tick fails, the tick is skipped as a whole: no
\* delivery attempt is made and every reminder that was due at that claim is
\* still in the table.
C13_FailedClaimKeepsRows ==
    [][\A p \in running : ClaimErrorStep(p) =>
          /\ attempts' = attempts
          /\ \A r \in SeenBy(p) :
                BigLess(r.date, BigOfNat(IF pc[p] = "select" THEN now ELSE claimAt[p]))
                   => r \in store']_vars


C15_ReturnedToOnePoller == \A i \in Ids : returned[i] <= 1


\* a stored reminder that falls due early enough for more claims to be
\* evaluated after its due instant than storage operations can fail
InTime(i) ==
    \E r \in store :
        /\ r.id = i
        /\ BigLess(BigAdd(r.date, BigOfNat(PollInterval * MaxFaults)),
                   BigOfNat(MaxTicks * 60))

\* C16: while time advances, the loop is scheduled fairly and claims do not
\* fail forever, every stored reminder is eventually removed from the table
\* and given a delivery attempt.
C16_EventuallyAttempted ==
    \A i \in Ids : [](InTime(i) => <>(i \notin StoreIds /\ AttemptsFor(i) # {}))


\* C17: no operation changes a stored row in place: a row keeps its id,
\* user_id, due_at and message while it is stored, and a step changes the
\* table only by inserting one whole new row (submit) or by deleting a whole
\* row (claim).
C17_RowsImmutable ==
    [][/\ \A r \in store : \A q \in store' : q.id = r.id => q = r
       /\ \/ store' = store
          \/ /\ SubmitStep
             /\ \E r \in store' : r.id \notin StoreIds /\ store' = store \cup {r}
          \/ /\ \E p \in running : pc[p] = "delete"
             /\ \E r \in store : store' = store \ {r}]_vars

\* one row has been deleted while another, inserted with it, is still stored
C17_Witness ==
    /\ Cardinality(submitted) = 2
    /\ Cardinality(store) = 1
    /\ store \subseteq submitted


\* a step in which poller p runs one DELETE of its claim
DeleteStep(p) ==
    /\ pc[p] = "delete"
    /\ pc'[p] # "delete" \/ idx'[p] # idx[p]

\* C18: a row inserted after a tick's SELECT and before or during its DELETEs
\* is not deleted by that tick, and a row leaves the table only through the
\* DELETE of a claim whose SELECT returned it.
C18_LateInsertSurvives ==
    [][/\ \A p \in running : DeleteStep(p) =>
             \A r \in store \ selStore[p] : r \in store'
       /\ \A r \in store \ store' :
             \E p \in running :
                /\ DeleteStep(p)
                /\ r \in selStore[p]
                /\ r.id \in RowIds(rows[p])]_vars

\* a submit has inserted a row between a tick's SELECT and its DELETE
C18_Witness ==
    /\ pc[1] = "delete"
    /\ selStore[1] # {}
    /\ store \ selStore[1] # {}


\* C19: every delivery attempt is for the user_id and message of a row that an
\* earlier successful submit stored, is addressed to the user of that submit,
\* and is made only after the row's due instant has passed.
C19_AttemptsComeFromSubmits ==
    \A k \in 1..Len(attempts) :
        \E r \in submitted :
            /\ r.id = attempts[k].id
            /\ r.user_id = attempts[k].user_id
            /\ r.message = attempts[k].message
            /\ <<r.user_id, attempts[k].to>> \in NamesUser
            /\ <<attempts[k].to, attempts[k].message>> \in Requests
            /\ BigLess(r.date, BigOfNat(attempts[k].at))

\* the reminder of user 42 has been sent to user 42
C19_Witness ==
    \E k \in 1..Len(attempts) :
        /\ attempts[k].ok
        /\ attempts[k].to = 42
        /\ attempts[k].message = "call mom"
        /\ attempts[k].id \notin StoreIds

====
